---------------------------- MODULE Spec2Model ----------------------------
(***************************************************************************)
(* A model of gatewayd's hook registry (plugin/hook/hook_registry.go) and  *)
(* of the event-loop server shell (network/server.go) with the proxy and   *)
(* the bounded pool it drives.                                             *)
(*                                                                         *)
(* Payloads are maps from keys to typed values <<type, tag>>.  The types   *)
(* "num" and "str" are primitive; "dur" stands for a custom type that the  *)
(* cast turns into a number; "bad" stands for a value that the structured  *)
(* encoding refuses.  A nil *structpb.Struct is modelled by the empty map, *)
(* which is what AsMap makes of it.                                        *)
(***************************************************************************)
EXTENDS Integers, Sequences, FiniteSets, TLC

VARIABLES
    hooks,      \* Registry.hooks: hook name -> (priority -> handler)
    run,        \* per caller: the position and the locals of its Registry.Run
    evicted,    \* history: the <<name, priority>> that the latest Run to end
                \* deleted, while the registry is as that Run left it
    cfg,        \* the configuration: elastic, reuseElasticClients, limits, pool size
    status,     \* Server.Status
    engine,     \* the event loop: "init", "serving", "stopping", "draining"
    conn,       \* per inbound connection: "free", "open", "closing"
    pool,       \* the bounded pool A: key -> upstream
    up,         \* per upstream client: "unused", "live", "closed"
    clientConnections,  \* the gauge gatewayd_client_connections
    last        \* the latest callback of the server: event, connection, steps, action

hookVars == <<hooks, run, evicted>>

serverVars == <<cfg, status, engine, conn, pool, up, clientConnections, last>>

vars == <<hooks, run, evicted, cfg, status, engine, conn, pool, up,
          clientConnections, last>>

-----------------------------------------------------------------------------
(* Bounds of the model.                                                    *)

\* Priorities are 1..MaxPriority.
MaxPriority == 4

\* At most MaxHandlers handlers are registered at a time, over all hook names.
MaxHandlers == 3

\* Inbound connections are 1..MaxConns.
MaxConns == 3

\* The pool is created with 1..MaxPool upstreams.
MaxPool == 2

\* No connection is accepted once the client-connections gauge shows MaxGauge.
MaxGauge == 4

-----------------------------------------------------------------------------
(* Payloads.                                                               *)

Keys == {"a"}

ArgTypes == {"num", "str", "dur", "bad"}

EmptyStruct == << >>

\* The args maps a caller may pass: every map from a subset of Keys to a typed value.
ArgsSet == UNION {[S -> {<<t, 0>> : t \in ArgTypes}] : S \in SUBSET Keys}

CastToPrimitiveTypes_Shift(args) ==
    [k \in DOMAIN args |->
        IF args[k][1] = "dur" THEN <<"num", args[k][2]>>
        ELSE IF args[k][1] = "num" THEN <<"str", args[k][2]>> ELSE args[k]]

\* utils.CastToPrimitiveTypes: custom types become primitive ones (a duration a number).
CastToPrimitiveTypes(args) ==
    [k \in DOMAIN args |->
        IF args[k][1] = "dur" THEN <<"num", args[k][2]>> ELSE args[k]]

\* structpb.NewStruct succeeds only on values of the primitive set.
NewStructOK(args) == \A k \in DOMAIN args : args[k][1] \in {"num", "str"}

\* structpb.Struct.AsMap: the fields as a plain map; a nil struct gives the empty map.
AsMap(s) == [k \in DOMAIN s |-> s[k]]

\* utils.Verify(params, result): every key of params is in result with a compatible type.
Verify(params, result) ==
    \A k \in DOMAIN params : k \in DOMAIN result /\ result[k][1] = params[k][1]

-----------------------------------------------------------------------------
(* Handlers.  A Method is an opaque function; the model has three of them: *)
(* "echo" returns its input, "incA" sets key a to a number one above the   *)
(* number it finds there (to 1 when it finds none), "fail" returns a nil   *)
(* result with an error.                                                   *)

HookNames == {"OnTraffic"}

Priorities == 1..MaxPriority

Kinds == {"echo", "incA", "fail"}

Policies == {"Ignore", "Abort", "Remove", "PassDown"}

Contexts == {"nil", "live", "cancelled"}

\* What a handler of kind `kind` returns on `input`.
Apply(kind, input) ==
    CASE kind = "echo" -> input
      [] kind = "incA" -> [k \in DOMAIN input \cup {"a"} |->
                              IF k # "a" THEN input[k]
                              ELSE IF "a" \in DOMAIN input /\ input["a"][1] = "num"
                                   THEN <<"num", input["a"][2] + 1>>
                                   ELSE <<"num", 1>>]
      [] OTHER         -> EmptyStruct

\* The results a call of the handler may give under context ctx: a handler is free
\* to honour a cancelled context (a nil result with an error) or not to look at it.
Invoke(kind, ctx, input) ==
    IF ctx = "cancelled" THEN {Apply(kind, input), EmptyStruct}
    ELSE {Apply(kind, input)}

-----
(* Sorting.                                                                *)

RECURSIVE InsertSorted(_, _)
InsertSorted(p, s) ==
    IF s = <<>> THEN <<p>>
    ELSE IF p < Head(s) THEN <<p>> \o s
    ELSE <<Head(s)>> \o InsertSorted(p, Tail(s))

RECURSIVE InsertionSort(_)
InsertionSort(s) ==
    IF s = <<>> THEN <<>>
    ELSE InsertSorted(s[Len(s)], InsertionSort(SubSeq(s, 1, Len(s) - 1)))

\* A sort that leaves the slice as the map yielded it.
SortStable_Unsorted(s) == s

\* sort.SliceStable(priorities, less): ascending.
SortStable(s) == InsertionSort(s)

\* A collection of the keys that misses the largest one.
MapOrders_SkipOne(S) ==
    IF S = {} THEN {<< >>}
    ELSE LET T == S \ {CHOOSE x \in S : \A y \in S : y <= x}
         IN  {s \in [1..Cardinality(T) -> T] :
                 \A i, j \in 1..Cardinality(T) : i # j => s[i] # s[j]}

\* The orders in which ranging over a Go map may yield its keys.
MapOrders(S) ==
    {s \in [1..Cardinality(S) -> S] : \A i, j \in 1..Cardinality(S) : i # j => s[i] # s[j]}

SeqToSet(s) == {s[i] : i \in 1..Len(s)}

-----------------------------------------------------------------------------
(* The registry.                                                           *)

Callers == {1, 2}

IdleRun ==
    [pc |-> "idle", ctx |-> "live", args |-> EmptyStruct, params |-> EmptyStruct,
     hookName |-> "OnTraffic", verification |-> "PassDown", priorities |-> <<>>,
     idx |-> 1, returnVal |-> EmptyStruct, removeList |-> <<>>, calls |-> <<>>,
     atBegin |-> << >>, evictedBefore |-> {}, ret |-> EmptyStruct, retNil |-> TRUE,
     err |-> "none"]

\* NewRegistry: no hooks.
InitRegistry ==
    /\ hooks = [n \in HookNames |-> << >>]
    /\ run = [c \in Callers |-> IdleRun]
    /\ evicted = {}

NumHandlers == Cardinality({<<n, p>> \in (DOMAIN hooks) \X Priorities : p \in DOMAIN hooks[n]})

AddedMap_Fresh(old, priority, hookFunc) == [p \in {priority} |-> hookFunc]

\* The map Add leaves under hookName.
AddedMap(old, priority, hookFunc) ==
    IF Cardinality(DOMAIN old) = 0
    THEN [p \in {priority} |-> hookFunc]
    ELSE [p \in DOMAIN old \cup {priority} |-> IF p = priority THEN hookFunc ELSE old[p]]

\* Add: the warning it logs when the priority already has a handler.
AddLog(old, priority) ==
    IF Cardinality(DOMAIN old) # 0 /\ priority \in DOMAIN old
    THEN <<"warn:Hook is replaced">> ELSE << >>

\* Registry.Add
Add(hookName, priority, hookFunc) ==
    /\ priority \in DOMAIN hooks[hookName] \/ NumHandlers < MaxHandlers
    /\ hooks' = [hooks EXCEPT ![hookName] = AddedMap(hooks[hookName], priority, hookFunc)]
    /\ evicted' = {}
    /\ UNCHANGED run

\* An Abort that returns the carried payload also when the first handler fails.
AbortReturn_NoFirstCase(idx, args, returnVal) == AsMap(returnVal)

\* What Abort returns when the handler at position idx (from 1) fails verification.
AbortReturn(idx, args, returnVal) ==
    IF idx = 1 THEN args ELSE AsMap(returnVal)

\* A failure of the first handler that leaves returnVal as it was initialised.
KeepCarry_NoFirstCase(idx, params, returnVal) == returnVal

\* What Ignore and Remove carry on when the handler at position idx fails verification.
KeepCarry(idx, params, returnVal) ==
    IF idx = 1 THEN params ELSE returnVal

\* A loop that hands every handler the params.
HandlerInput_AlwaysParams(idx, params, returnVal) == params

\* The input of the handler at position idx.
HandlerInput(idx, params, returnVal) ==
    IF idx = 1 THEN params ELSE returnVal

\* A check that verifies under every policy.
Accepted_Always(params, result, verification) == TRUE

Accepted_VerifyOnly(params, result, verification) == Verify(params, result)

\* Whether the result of a handler becomes the carried payload.
Accepted(params, result, verification) ==
    Verify(params, result) \/ verification = "PassDown"

\* A removal that drops every handler of the name once one of them failed.
DeleteAll_WholeName(m, removeList) == IF removeList = <<>> THEN m ELSE << >>

\* A removal that deletes only the first handler of removeList.
DeleteAll_FirstOnly(m, removeList) ==
    [p \in DOMAIN m \ (IF removeList = <<>> THEN {} ELSE {removeList[1]}) |-> m[p]]

\* The hook map of a name after the handlers of removeList are deleted.
DeleteAll(m, removeList) ==
    [p \in DOMAIN m \ SeqToSet(removeList) |-> m[p]]

\* The end of Run, after the loop: delete the handlers that failed and return.
Finish(c, r) ==
    /\ hooks' = [hooks EXCEPT ![r.hookName] = DeleteAll(hooks[r.hookName], r.removeList)]
    /\ evicted' = {<<r.hookName, p>> : p \in DOMAIN hooks[r.hookName] \cap SeqToSet(r.removeList)}
    /\ run' = [run EXCEPT ![c] =
                  [r EXCEPT !.pc = "done", !.ret = AsMap(r.returnVal),
                            !.retNil = FALSE, !.err = "none"]]

IsNilContext_Never(ctx) == FALSE

\* Run: the test of ctx on entry.
IsNilContext(ctx) == ctx = "nil"

\* Registry.Run, from its entry to the first call of a handler.
RunBegin(c, ctx, args, hookName, verification) ==
    /\ run[c].pc = "idle"
    /\ LET cast == CastToPrimitiveTypes(args)
           r0 == [IdleRun EXCEPT !.ctx = ctx, !.args = args, !.hookName = hookName,
                                 !.verification = verification,
                                 !.atBegin = hooks[hookName],
                                 !.evictedBefore = evicted]
       IN  IF IsNilContext(ctx)
           THEN /\ run' = [run EXCEPT ![c] =
                              [r0 EXCEPT !.pc = "done", !.err = "NilContext"]]
                /\ evicted' = {}
                /\ UNCHANGED hooks
           ELSE IF ~NewStructOK(cast)
           THEN /\ run' = [run EXCEPT ![c] =
                              [r0 EXCEPT !.pc = "done", !.args = cast,
                                         !.err = "CastFailed"]]
                /\ evicted' = {}
                /\ UNCHANGED hooks
           ELSE \E order \in MapOrders(DOMAIN hooks[hookName]) :
                  LET r1 == [r0 EXCEPT !.args = cast, !.params = cast,
                                       !.priorities = SortStable(order),
                                       !.pc = "loop"]
                  IN  IF r1.priorities = <<>>
                      THEN Finish(c, r1)
                      ELSE /\ run' = [run EXCEPT ![c] = r1]
                           /\ evicted' = {}
                           /\ UNCHANGED hooks

\* One iteration of Run's loop: the call of the handler at position idx, the
\* verification of its result and the policy; after the last one, the end of Run.
RunInvoke(c) ==
    /\ run[c].pc = "loop"
    /\ LET r == run[c]
           priority == r.priorities[r.idx]
           input == HandlerInput(r.idx, r.params, r.returnVal)
           lastOne == r.idx = Len(r.priorities)
       IN  IF priority \notin DOMAIN hooks[r.hookName]
           THEN \* the call of a nil func value panics
                /\ run' = [run EXCEPT ![c] = [r EXCEPT !.pc = "panic"]]
                /\ UNCHANGED <<hooks, evicted>>
           ELSE \E result \in Invoke(hooks[r.hookName][priority], r.ctx, input) :
                  LET ok == Accepted(r.params, result, r.verification)
                      call == [priority |-> priority,
                               kind |-> hooks[r.hookName][priority],
                               input |-> input, output |-> result,
                               verified |-> Verify(r.params, result),
                               ctx |-> r.ctx]
                      r1 == [r EXCEPT !.calls = Append(r.calls, call),
                                      !.idx = r.idx + 1]
                      r2 == IF ok THEN [r1 EXCEPT !.returnVal = result]
                            ELSE CASE r.verification = "Ignore" ->
                                        [r1 EXCEPT !.returnVal =
                                            KeepCarry(r.idx, r.params, r.returnVal)]
                                   [] r.verification = "Remove" ->
                                        [r1 EXCEPT !.returnVal =
                                            KeepCarry(r.idx, r.params, r.returnVal),
                                          !.removeList = Append(r.removeList, priority)]
                                   [] r.verification \in {"Abort", "PassDown"} -> r1
                                   [] OTHER -> [r1 EXCEPT !.returnVal = result]
                  IN  IF ~ok /\ r.verification = "Abort"
                      THEN /\ run' = [run EXCEPT ![c] =
                                  [r1 EXCEPT !.pc = "done", !.retNil = FALSE,
                                      !.ret = AbortReturn(r.idx, r.args, r.returnVal)]]
                           /\ UNCHANGED <<hooks, evicted>>
                      ELSE IF lastOne THEN Finish(c, r2)
                      ELSE /\ run' = [run EXCEPT ![c] = r2]
                           /\ UNCHANGED <<hooks, evicted>>

\* The parent context of a Run in progress is cancelled (or its deadline passes).
Cancel(c) ==
    /\ run[c].pc = "loop"
    /\ run[c].ctx = "live"
    /\ run' = [run EXCEPT ![c].ctx = "cancelled"]
    /\ UNCHANGED <<hooks, evicted>>

\* The caller takes what Run returned (or the panic unwinds).
RunReturn(c) ==
    /\ run[c].pc \in {"done", "panic"}
    /\ run' = [run EXCEPT ![c] = IdleRun]
    /\ UNCHANGED <<hooks, evicted>>

-----------------------------------------------------------------------------
(* The bounded pool, the proxy and the server shell.                       *)

Conns == 1..MaxConns

Upstreams == 1..(MaxPool + 1)

\* The key of a leased upstream: the inbound's remote address.
InKey(c) == <<"in", c>>

\* The key of an available upstream: the client's own identity.
UpKey(u) == <<"up", u>>

EmptyPool == << >>

PoolRemove(p, key) == [k \in DOMAIN p \ {key} |-> p[k]]

PoolPutOK_KeyOnly(p, capacity, key) == key \notin DOMAIN p

PoolPutOK_CapacityOnly(p, capacity, key) == Cardinality(DOMAIN p) < capacity

\* put(key, val): fails with PoolExhausted at capacity or on a key already present.
PoolPutOK(p, capacity, key) == Cardinality(DOMAIN p) < capacity /\ key \notin DOMAIN p

PoolPut(p, key, val) == [k \in DOMAIN p \cup {key} |-> IF k = key THEN val ELSE p[k]]

\* popAny(): any (key, resource) pair of the pool.
PopAnyKeys(p) == DOMAIN p

PoolRange(p) == {p[k] : k \in DOMAIN p}

\* The keys of the busy bindings: the upstreams leased to inbounds.
Leases(p) == {k \in DOMAIN p : k[1] = "in"}

\* The proxied-connections gauge: the number of upstreams leased to inbounds.
ProxiedConnections(p) == Cardinality(Leases(p))

\* The upstream the factory makes next: closed upstreams leave their names free.
FreshUpstreams == {u \in Upstreams : up[u] # "live" /\ u \notin PoolRange(pool)}

\* The configurations: reuseElasticClients matters to an elastic proxy only, and
\* the limits are both off or 2 (soft) and 3 (hard).
Configs ==
    {k \in [elastic : BOOLEAN, reuse : BOOLEAN, softLimit : {0, 2}, hardLimit : {0, 3},
             size : 1..MaxPool] :
        /\ k.reuse => k.elastic
        /\ k.softLimit = 0 <=> k.hardLimit = 0}

\* NewPool, NewProxy and NewServer: the pool holds its size of upstreams, each
\* under its own identity; the status is Stopped until OnBoot.
InitServer ==
    /\ cfg \in Configs
    /\ status = "Stopped"
    /\ engine = "init"
    /\ conn = [c \in Conns |-> "free"]
    /\ pool = [k \in {UpKey(u) : u \in 1..cfg.size} |-> k[2]]
    /\ up = [u \in Upstreams |-> IF u <= cfg.size THEN "live" ELSE "unused"]
    /\ clientConnections = 0
    /\ last = [ev |-> "none", c |-> 0, steps |-> <<>>, action |-> "None"]

Init == InitRegistry /\ InitServer

\* Proxy.IsExhausted: the proxy is not elastic and its pool has size 0.
IsExhausted(p, elastic) == ~elastic /\ Cardinality(DOMAIN p) = 0

\* Proxy.Connect(inbound): the pool, the upstreams and the error it may leave.
ConnectOutcomes(c) ==
    IF DOMAIN pool # {}
    THEN {LET popped == PoolRemove(pool, k)
          IN  IF PoolPutOK(popped, cfg.size, InKey(c))
              THEN [pool |-> PoolPut(popped, InKey(c), pool[k]), up |-> up,
                    err |-> "none"]
              ELSE [pool |-> popped, up |-> up, err |-> "PoolExhausted"]
          : k \in PopAnyKeys(pool)}
    ELSE IF cfg.elastic
    THEN {[pool |-> pool, up |-> up, err |-> "ClientConnectionFailed"]}
         \cup {[pool |-> PoolPut(pool, InKey(c), u),
                up |-> [up EXCEPT ![u] = "live"], err |-> "none"]
               : u \in {v \in FreshUpstreams : \A w \in FreshUpstreams : v <= w}}
    ELSE {[pool |-> pool, up |-> up, err |-> "PoolExhausted"]}

\* Proxy.Disconnect(inbound): the pool, the upstreams and the error it may leave.
DisconnectOutcomes(c) ==
    IF InKey(c) \notin DOMAIN pool
    THEN {[pool |-> pool, up |-> up, err |-> "ClientNotFound"]}
    ELSE LET u == pool[InKey(c)]
             dropped == [pool |-> PoolRemove(pool, InKey(c)),
                         up |-> [up EXCEPT ![u] = "closed"], err |-> "none"]
             recycled == [pool |-> PoolPut(PoolRemove(pool, InKey(c)), UpKey(u), u),
                          up |-> up, err |-> "none"]
         IN  IF cfg.elastic /\ ~cfg.reuse THEN {dropped}
             ELSE {dropped, recycled}    \* the upstream reports unhealthy, or not

\* Proxy.Shutdown: clear the pool with close as the finalizer.
ProxyShutdown ==
    /\ pool' = EmptyPool
    /\ up' = [u \in Upstreams |-> IF u \in PoolRange(pool) THEN "closed" ELSE up[u]]

\* What Proxy.PassThrough may return for inbound c, given whether a handler of the
\* OnTraffic hook set terminate in its result.
PassThroughErrors(c, terminate) ==
    IF terminate THEN {"HookTerminatedConnection"}
    ELSE {"CastFailed"} \cup
         (IF InKey(c) \notin DOMAIN pool THEN {"ClientNotFound"}
          ELSE {"none", "ClientNotConnected", "ClientSendFailed", "ClientReceiveFailed",
                "EOF", "WriteFailed"})

\* What Proxy.PassThrough did before it returned err: it reads the inbound, runs
\* the OnTraffic hooks (a terminate counts on PassthroughTerminations and ends
\* it), looks the upstream up, runs OnIngressTraffic, sends, receives, runs
\* OnEgressTraffic and writes the response to the inbound.
PassThroughSteps(terminate, err) ==
    LET hook == <<"read", "hook:OnTraffic">>
        found == hook \o <<"lookup", "hook:OnIngressTraffic">>
        sent == found \o <<"send">>
        got == sent \o <<"receive", "hook:OnEgressTraffic">>
    IN  CASE terminate -> hook \o <<"terminate", "Inc:PassthroughTerminations">>
          [] err = "CastFailed" -> hook
          [] err = "ClientNotFound" -> hook \o <<"lookup">>
          [] err \in {"ClientNotConnected", "ClientSendFailed"} -> found \o <<"send:failed">>
          [] err \in {"ClientReceiveFailed", "EOF"} -> sent \o <<"receive:failed">>
          [] err = "WriteFailed" -> got \o <<"write:failed">>
          [] OTHER -> got \o <<"write">>

ClosesOnTraffic_NoHookTermination(err) ==
    err \in {"PoolExhausted", "CastFailed", "ClientNotFound", "ClientNotConnected",
             "ClientSendFailed", "ClientReceiveFailed", "EOF"}

ClosesOnTraffic_NoCastFailed(err) ==
    err \in {"PoolExhausted", "ClientNotFound", "ClientNotConnected",
             "ClientSendFailed", "ClientReceiveFailed", "HookTerminatedConnection",
             "EOF"}

\* The errors on which OnTraffic closes the inbound.
ClosesOnTraffic(err) ==
    err \in {"PoolExhausted", "CastFailed", "ClientNotFound", "ClientNotConnected",
             "ClientSendFailed", "ClientReceiveFailed", "HookTerminatedConnection",
             "EOF"}

\* engine.CountConnections(): the connections the event loop holds.
CountConnections(cn) == Cardinality({c \in Conns : cn[c] # "free"})

\* OnOpen: the soft limit is set and the connections held have reached it.
SoftLimitHit(c, count) == c.softLimit > 0 /\ count >= c.softLimit

HardLimitHit_Above(c, count) == c.hardLimit > 0 /\ count > c.hardLimit

\* OnOpen: the hard limit is set and the connections held have reached it.
HardLimitHit(c, count) == c.hardLimit > 0 /\ count >= c.hardLimit

ClosesOnConnect_Never(err) == FALSE

\* OnOpen: the error of Proxy.Connect on which the inbound is closed.
ClosesOnConnect(err) == err = "PoolExhausted"

ShutdownDue_CountOnly(count, st) == count = 0

ShutdownDue_Running(count, st) == count = 0 /\ st = "Running"

\* OnClose: no connection is left and the server is stopped.
ShutdownDue(count, st) == count = 0 /\ st = "Stopped"

\* Server.IsRunning
IsRunning(st) == st = "Running"

\* What a Run of the hooks may return to the server: no error, or an error.
HookErrors == {"none", "CastFailed"}

OnBootedSees_Old(old, new) == old

\* OnBoot: the status that the payload of the OnBooted hooks shows.
OnBootedSees(old, new) == new

\* Server.OnBoot
OnBoot ==
    /\ engine = "init"
    /\ engine' = "serving"
    /\ status' = "Running"
    /\ \E err1, err2 \in HookErrors :
          last' = [ev |-> "OnBoot", c |-> 0,
                   steps |-> <<"OnBooting", "status:" \o status, "err:" \o err1,
                               "set:Running",
                               "OnBooted", "status:" \o OnBootedSees(status, "Running"),
                               "err:" \o err2>>,
                   action |-> "None"]
    /\ UNCHANGED <<cfg, conn, pool, up, clientConnections>>

\* Server.OnOpen for a connection the event loop has just accepted.
OnOpen(c) ==
    /\ engine = "serving"
    /\ conn[c] = "free"
    /\ cfg.elastic /\ DOMAIN pool = {} => FreshUpstreams # {}
    /\ clientConnections < MaxGauge
    /\ LET count == CountConnections([conn EXCEPT ![c] = "open"])
           soft == IF SoftLimitHit(cfg, count)
                   THEN <<"warn:Soft limit reached">> ELSE <<>>
           pre == <<"OnOpening">> \o soft
       IN  IF HardLimitHit(cfg, count)
           THEN /\ conn' = [conn EXCEPT ![c] = "closing"]
                /\ last' = [ev |-> "OnOpen", c |-> c,
                            steps |-> pre \o <<"write:Hard limit reached">>,
                            action |-> "Close"]
                /\ UNCHANGED <<pool, up, clientConnections>>
           ELSE \E o \in ConnectOutcomes(c) :
                  /\ pool' = o.pool
                  /\ up' = o.up
                  /\ IF o.err # "none" /\ ClosesOnConnect(o.err)
                     THEN /\ conn' = [conn EXCEPT ![c] = "closing"]
                          /\ last' = [ev |-> "OnOpen", c |-> c,
                                      steps |-> pre \o <<"Connect:" \o o.err>>,
                                      action |-> "Close"]
                          /\ UNCHANGED clientConnections
                     ELSE IF o.err # "none"
                     THEN /\ conn' = [conn EXCEPT ![c] = "open"]
                          /\ last' = [ev |-> "OnOpen", c |-> c,
                                      steps |-> pre \o <<"Connect:" \o o.err>>,
                                      action |-> "None"]
                          /\ UNCHANGED clientConnections
                     ELSE /\ conn' = [conn EXCEPT ![c] = "open"]
                          /\ last' = [ev |-> "OnOpen", c |-> c,
                                      steps |-> pre \o <<"Connect", "OnOpened", "Inc">>,
                                      action |-> "None"]
                          /\ clientConnections' = clientConnections + 1
    /\ UNCHANGED <<cfg, status, engine>>

\* Server.OnTraffic
OnTraffic(c) ==
    /\ engine \in {"serving", "stopping"}
    /\ conn[c] = "open"
    /\ \E terminate \in BOOLEAN : \E err \in PassThroughErrors(c, terminate) :
          /\ conn' = [conn EXCEPT ![c] = IF ClosesOnTraffic(err) THEN "closing" ELSE "open"]
          /\ last' = [ev |-> "OnTraffic", c |-> c,
                      steps |-> <<"OnTraffic">> \o PassThroughSteps(terminate, err)
                                   \o <<"PassThrough:" \o err>>,
                      action |-> IF ClosesOnTraffic(err) THEN "Close" ELSE "None"]
    /\ UNCHANGED <<cfg, status, engine, pool, up, clientConnections>>

\* The peer closes its end of the connection.
PeerClose(c) ==
    /\ engine # "exited"
    /\ conn[c] = "open"
    /\ conn' = [conn EXCEPT ![c] = "closing"]
    /\ UNCHANGED <<cfg, status, engine, pool, up, clientConnections, last>>

\* Server.OnClose for a connection the event loop has dropped from its count.
OnClose(c) ==
    /\ engine # "exited"
    /\ conn[c] = "closing"
    /\ conn' = [conn EXCEPT ![c] = "free"]
    /\ IF ShutdownDue(CountConnections(conn'), status)
       THEN /\ last' = [ev |-> "OnClose", c |-> c, steps |-> <<"OnClosing">>,
                        action |-> "Shutdown"]
            /\ engine' = IF engine = "serving" THEN "stopping" ELSE engine
            /\ UNCHANGED <<pool, up, clientConnections>>
       ELSE \E o \in DisconnectOutcomes(c) :
              /\ pool' = o.pool
              /\ up' = o.up
              /\ engine' = engine
              /\ IF o.err # "none"
                 THEN /\ last' = [ev |-> "OnClose", c |-> c,
                                  steps |-> <<"OnClosing", "Disconnect:" \o o.err>>,
                                  action |-> "Close"]
                      /\ UNCHANGED clientConnections
                 ELSE /\ last' = [ev |-> "OnClose", c |-> c,
                                  steps |-> <<"OnClosing", "Disconnect", "OnClosed", "Dec">>,
                                  action |-> "Close"]
                      /\ clientConnections' = clientConnections - 1
    /\ UNCHANGED <<cfg, status>>

\* Server.Shutdown
Shutdown ==
    /\ engine = "serving"
    /\ ProxyShutdown
    /\ status' = "Stopped"
    /\ engine' = "stopping"
    /\ last' = [ev |-> "Shutdown", c |-> 0,
                steps |-> <<"Proxy.Shutdown", "Stopped", "engine.Stop">>,
                action |-> "None"]
    /\ UNCHANGED <<cfg, conn, clientConnections>>

\* Server.OnShutdown, after which the event loop closes the connections it holds.
OnShutdown ==
    /\ engine = "stopping"
    /\ ProxyShutdown
    /\ status' = "Stopped"
    /\ engine' = "draining"
    /\ conn' = [c \in Conns |-> IF conn[c] = "open" THEN "closing" ELSE conn[c]]
    /\ last' = [ev |-> "OnShutdown", c |-> 0,
                steps |-> <<"OnShutdown", "Proxy.Shutdown", "Stopped">>,
                action |-> "None"]
    /\ UNCHANGED <<cfg, clientConnections>>

-----------------------------------------------------------------------------
(* The registry with one caller at a time: Add and Run never interleave.   *)

DoAdd ==
    /\ run[1].pc = "idle"
    /\ \E n \in HookNames, p \in Priorities, k \in Kinds : Add(n, p, k)
    /\ UNCHANGED serverVars

DoRunBegin ==
    /\ \E ctx \in Contexts, args \in ArgsSet, n \in HookNames, v \in Policies :
          RunBegin(1, ctx, args, n, v)
    /\ UNCHANGED serverVars

DoRunInvoke == RunInvoke(1) /\ UNCHANGED serverVars

DoRunReturn == RunReturn(1) /\ UNCHANGED serverVars

Next == DoAdd \/ DoRunBegin \/ DoRunInvoke \/ DoRunReturn

\* NewServer with limits of 0 (no limit) over a fixed pool of one upstream.
InitOneConfig ==
    /\ Init
    /\ cfg = [elastic |-> FALSE, reuse |-> FALSE, softLimit |-> 0,
              hardLimit |-> 0, size |-> 1]

\* The hook names of the registration specification.
AddNames == {"OnTraffic", "OnBooting"}

\* A registry that holds two hook names.
InitAdd ==
    /\ hooks = [n \in AddNames |-> << >>]
    /\ run = [c \in Callers |-> IdleRun]
    /\ evicted = {}
    /\ InitServer
    /\ cfg = [elastic |-> FALSE, reuse |-> FALSE, softLimit |-> 0,
              hardLimit |-> 0, size |-> 1]

\* A call of Add, with what it logged.
DoAddNamed ==
    /\ \E n \in AddNames, p \in Priorities, k \in Kinds :
          /\ Add(n, p, k)
          /\ last' = [ev |-> "Add", c |-> p,
                      steps |-> <<n>> \o AddLog(hooks[n], p), action |-> "None"]
    /\ UNCHANGED <<cfg, status, engine, conn, pool, up, clientConnections>>

NextAdd == DoAddNamed

\* Registrations alone, on two hook names.
SpecAdd == InitAdd /\ [][NextAdd]_vars

\* The handlers that are registered while a Run may be in progress.
LiveKinds == {"echo", "fail"}

\* An Add at any moment, also while a Run is between two handlers.
DoAddAnyTime ==
    /\ run[1].pc \in {"idle", "loop"}
    /\ \E n \in HookNames, p \in Priorities, k \in LiveKinds : Add(n, p, k)
    /\ UNCHANGED serverVars

\* The args of the Runs that registrations interleave with.
LiveArgs == {[k \in Keys |-> <<"num", 0>>]}

\* A Run that a caller starts with a live context.
DoRunBeginLive ==
    /\ \E args \in LiveArgs, n \in HookNames, v \in Policies :
          RunBegin(1, "live", args, n, v)
    /\ UNCHANGED serverVars

NextInterleaved == DoAddAnyTime \/ DoRunBeginLive \/ DoRunInvoke \/ DoRunReturn

\* The hook registry with registrations that interleave with a Run.
SpecInterleaved == InitOneConfig /\ [][NextInterleaved]_vars

\* The hook registry, for a server of one configuration.
Spec == InitOneConfig /\ [][Next]_vars

-----------------------------------------------------------------------------
(* The server: the callbacks of the connections interleave.                *)

DoOnOpen == \E c \in Conns : OnOpen(c) /\ UNCHANGED hookVars

DoOnTraffic == \E c \in Conns : OnTraffic(c) /\ UNCHANGED hookVars

DoPeerClose == \E c \in Conns : PeerClose(c) /\ UNCHANGED hookVars

DoOnClose == \E c \in Conns : OnClose(c) /\ UNCHANGED hookVars

NextServer ==
    \/ OnBoot /\ UNCHANGED hookVars
    \/ DoOnOpen
    \/ DoOnTraffic
    \/ DoPeerClose
    \/ DoOnClose
    \/ Shutdown /\ UNCHANGED hookVars
    \/ OnShutdown /\ UNCHANGED hookVars

SpecServer == Init /\ [][NextServer]_vars

-----------------------------------------------------------------------------
(* Runs of one hook name in a registry that holds two.                     *)

DoAddFrame ==
    /\ run[1].pc = "idle"
    /\ \E n \in AddNames, p \in Priorities, k \in LiveKinds : Add(n, p, k)
    /\ UNCHANGED serverVars

NextFrame == DoAddFrame \/ DoRunBegin \/ DoRunInvoke \/ DoRunReturn

SpecFrame == InitAdd /\ [][NextFrame]_vars

-----------------------------------------------------------------------------
(* Two callers whose Runs of a hook name interleave.                       *)

DoAddIdle ==
    /\ \A c \in Callers : run[c].pc = "idle"
    /\ \E n \in HookNames, p \in Priorities, k \in LiveKinds : Add(n, p, k)
    /\ UNCHANGED serverVars

DoRunBeginAny ==
    /\ \E c \in Callers, args \in LiveArgs, n \in HookNames, v \in Policies :
          RunBegin(c, "live", args, n, v)
    /\ UNCHANGED serverVars

DoRunInvokeAny == (\E c \in Callers : RunInvoke(c)) /\ UNCHANGED serverVars

DoRunReturnAny == (\E c \in Callers : RunReturn(c)) /\ UNCHANGED serverVars

NextConcurrent == DoAddIdle \/ DoRunBeginAny \/ DoRunInvokeAny \/ DoRunReturnAny

SpecConcurrent == InitOneConfig /\ [][NextConcurrent]_vars

-----------------------------------------------------------------------------
(* Runs whose parent context is cancelled while they are in progress.      *)

DoCancel == Cancel(1) /\ UNCHANGED serverVars

NextCancel == DoAdd \/ DoRunBeginLive \/ DoCancel \/ DoRunInvoke \/ DoRunReturn

SpecCancel == InitOneConfig /\ [][NextCancel]_vars

-----------------------------------------------------------------------------
(* A caller that runs a hook name on the result of its Run of that name.   *)

\* The caller of the first Run; caller 1 makes the second.
First == 2

DoAddBetween ==
    /\ run[1].pc = "idle" /\ run[First].pc = "idle"
    /\ \E n \in HookNames, p \in Priorities, k \in Kinds : Add(n, p, k)
    /\ UNCHANGED serverVars

DoFirstBegin ==
    /\ run[1].pc = "idle"
    /\ \E ctx \in Contexts, args \in ArgsSet, n \in HookNames, v \in Policies :
          RunBegin(First, ctx, args, n, v)
    /\ UNCHANGED serverVars

DoFirstInvoke == RunInvoke(First) /\ UNCHANGED serverVars

\* The second Run: the same call, on the map the first Run returned.
DoSecondBegin ==
    /\ run[First].pc = "done" /\ run[First].err = "none"
    /\ RunBegin(1, run[First].ctx, run[First].ret, run[First].hookName,
                run[First].verification)
    /\ UNCHANGED serverVars

DoSecondInvoke == RunInvoke(1) /\ UNCHANGED serverVars

DoSecondReturn == RunReturn(1) /\ UNCHANGED serverVars

DoFirstReturn ==
    /\ run[1].pc = "idle"
    /\ RunReturn(First)
    /\ UNCHANGED serverVars

NextTwice ==
    \/ DoAddBetween
    \/ DoFirstBegin
    \/ DoFirstInvoke
    \/ DoSecondBegin
    \/ DoSecondInvoke
    \/ DoSecondReturn
    \/ DoFirstReturn

SpecTwice == InitOneConfig /\ [][NextTwice]_vars

-----------------------------------------------------------------------------
(* The process of the run command around the server.                       *)

\* What Server.Run returns when gnet.Run returned origErr.
ServerRunError(origErr) ==
    IF origErr # "none" THEN "FailedToStartServer:" \o origErr ELSE "none"

\* runCmd.Run after server.Run returned: the error is logged and the command
\* returns, so the process ends as it does after any return, with code 0.
RunCmdExitCode(err) == 0

\* server.Run() in runCmd.Run when gnet.Run cannot bind the address.
RunFailsToBind ==
    /\ engine = "init"
    /\ engine' = "exited"
    /\ last' = [ev |-> "Exit", c |-> RunCmdExitCode(ServerRunError("bind")),
                steps |-> <<"gnet.Run:bind", ServerRunError("bind"),
                            "log:Failed to start server", "return">>,
                action |-> "None"]
    /\ UNCHANGED <<cfg, status, conn, pool, up, clientConnections>>

Signals_One == <<"SIGINT">>

\* The signals the command registers, in the order of its slice: os.Interrupt,
\* os.Kill, SIGTERM, SIGABRT, SIGQUIT, SIGHUP, SIGINT (os.Interrupt is SIGINT).
Signals == <<"SIGINT", "SIGKILL", "SIGTERM", "SIGABRT", "SIGQUIT", "SIGHUP", "SIGINT">>

\* The inner loop of the signal goroutine on signal sig, from element i of the
\* slice: at the first element that differs from sig it runs the OnSignal hooks,
\* calls server.Shutdown() and exits the process, which ends the loop.
RECURSIVE SignalSteps(_, _)
SignalSteps(sig, i) ==
    IF i > Len(Signals) THEN << >>
    ELSE IF sig # Signals[i] THEN <<"OnSignal", "Shutdown", "os.Exit">>
    ELSE SignalSteps(sig, i + 1)

\* The signal goroutine of runCmd.Run on one signal taken from the channel.
OnSignal ==
    /\ engine = "serving"
    /\ \E sig \in SeqToSet(Signals) :
          LET steps == SignalSteps(sig, 1)
          IN  IF steps # << >>
              THEN /\ ProxyShutdown
                   /\ status' = "Stopped"
                   /\ engine' = "exited"
                   /\ last' = [ev |-> "Exit", c |-> 0, steps |-> steps \o <<sig>>,
                               action |-> "None"]
              ELSE /\ last' = [ev |-> "Signal", c |-> 0, steps |-> <<"ignored", sig>>,
                               action |-> "None"]
                   /\ UNCHANGED <<pool, up, status, engine>>
    /\ UNCHANGED <<cfg, conn, clientConnections>>

NextProcess ==
    \/ RunFailsToBind /\ UNCHANGED hookVars
    \/ OnSignal /\ UNCHANGED hookVars
    \/ OnBoot /\ UNCHANGED hookVars
    \/ DoOnOpen
    \/ DoOnTraffic
    \/ DoPeerClose
    \/ DoOnClose

\* The run command: the server binds and serves until a signal, or fails to bind.
SpecProcess == InitOneConfig /\ [][NextProcess]_vars

-----------------------------------------------------------------------------
(* The pool and the proxy on their own: any caller, any order of calls.    *)

PoolKeys == {InKey(c) : c \in Conns} \cup {UpKey(u) : u \in Upstreams}

NoKey == <<"none", 0>>

\* The upstreams a caller may hold: connected ones that are not in the pool.
HeldUpstreams == {u \in Upstreams : up[u] = "live" /\ u \notin PoolRange(pool)}

\* put(key, val)
Put(key, val) ==
    /\ IF PoolPutOK(pool, cfg.size, key)
       THEN /\ pool' = PoolPut(pool, key, val)
            /\ last' = [ev |-> "put", key |-> key, err |-> "none"]
       ELSE /\ pool' = pool
            /\ last' = [ev |-> "put", key |-> key, err |-> "PoolExhausted"]
    /\ UNCHANGED <<cfg, status, engine, conn, up, clientConnections>>

\* pop(key): removes the resource bound to key, if there is one.
Pop(key) ==
    /\ pool' = PoolRemove(pool, key)
    /\ last' = [ev |-> "pop", key |-> NoKey, err |-> "none"]
    /\ UNCHANGED <<cfg, status, engine, conn, up, clientConnections>>

\* popAny(): removes any pair of the pool, if there is one.
PopAny ==
    /\ IF DOMAIN pool = {}
       THEN pool' = pool
       ELSE \E k \in PopAnyKeys(pool) : pool' = PoolRemove(pool, k)
    /\ last' = [ev |-> "popAny", key |-> NoKey, err |-> "none"]
    /\ UNCHANGED <<cfg, status, engine, conn, up, clientConnections>>

\* remove(key)
Remove(key) ==
    /\ key \in DOMAIN pool
    /\ pool' = PoolRemove(pool, key)
    /\ last' = [ev |-> "remove", key |-> NoKey, err |-> "none"]
    /\ UNCHANGED <<cfg, status, engine, conn, up, clientConnections>>

\* clear(finalizer), with close as the finalizer.
Clear ==
    /\ ProxyShutdown
    /\ last' = [ev |-> "clear", key |-> NoKey, err |-> "none"]
    /\ UNCHANGED <<cfg, status, engine, conn, clientConnections>>

\* Proxy.Connect(inbound)
Connect(c) ==
    /\ cfg.elastic /\ DOMAIN pool = {} => FreshUpstreams # {}
    /\ \E o \in ConnectOutcomes(c) :
          /\ pool' = o.pool
          /\ up' = o.up
          /\ last' = [ev |-> "Connect", key |-> InKey(c), err |-> o.err]
    /\ UNCHANGED <<cfg, status, engine, conn, clientConnections>>

\* Proxy.Disconnect(inbound); the identity key it puts the upstream under is fresh.
Disconnect(c) ==
    /\ InKey(c) \in DOMAIN pool => UpKey(pool[InKey(c)]) \notin DOMAIN pool
    /\ \E o \in DisconnectOutcomes(c) :
          /\ pool' = o.pool
          /\ up' = o.up
          /\ last' = [ev |-> "Disconnect", key |-> InKey(c), err |-> o.err]
    /\ UNCHANGED <<cfg, status, engine, conn, clientConnections>>

DoPut == \E key \in PoolKeys, val \in HeldUpstreams : Put(key, val) /\ UNCHANGED hookVars

DoPop == \E key \in PoolKeys : Pop(key) /\ UNCHANGED hookVars

DoPopAny == PopAny /\ UNCHANGED hookVars

DoRemove == \E key \in PoolKeys : Remove(key) /\ UNCHANGED hookVars

DoClear == Clear /\ UNCHANGED hookVars

DoConnect == \E c \in Conns : Connect(c) /\ UNCHANGED hookVars

DoDisconnect == \E c \in Conns : Disconnect(c) /\ UNCHANGED hookVars

NextPool ==
    DoPut \/ DoPop \/ DoPopAny \/ DoRemove \/ DoClear \/ DoConnect \/ DoDisconnect

\* NewPool and NewProxy of a server that has no connection limits.
InitPool == Init /\ cfg.softLimit = 0

SpecPool == InitPool /\ [][NextPool]_vars

-----------------------------------------------------------------------------
(* Properties of Registry.Run, stated of the Run of caller 1.              *)

R == run[1]

\* The Run went past the nil check and the cast: its loop began.
Looped == R.pc \in {"loop", "done"} /\ R.err = "none" /\ R.ctx # "nil"

\* The Run returned from after the loop or from the Abort case.
Returned == R.pc = "done" /\ R.err = "none" /\ R.ctx # "nil"

NumCalls == Len(R.calls)

NumAtBegin == Cardinality(DOMAIN R.atBegin)

CallPriorities == {R.calls[i].priority : i \in 1..NumCalls}

Failed == {i \in 1..NumCalls : ~R.calls[i].verified}

Passed == {i \in 1..NumCalls : R.calls[i].verified}

SetMax(S) == CHOOSE x \in S : \A y \in S : y <= x

\* The output of the last of the first n calls that passed verification, or params.
LastValid(n) ==
    LET S == {i \in Passed : i <= n}
    IN  IF S = {} THEN R.params ELSE R.calls[SetMax(S)].output

\* C1 (as claimed): a Run on a hook name with no handlers returns, with no error,
\* a map equal to args.
C1_NoHandlersReturnsArgs ==
    (R.pc = "done" /\ R.ctx # "nil" /\ NewStructOK(R.args) /\ R.atBegin = << >>)
        => (R.err = "none" /\ ~R.retNil /\ R.ret = R.args)

\* C2: under Abort the Run stops at the first handler that fails verification:
\* while it loops every call so far passed; once it returned after a failure, the
\* failing call is the last one, exactly the handlers up to its priority were
\* called, there is no error, and the map returned is the output of the call
\* before it, or args (as cast) when the first handler failed.
C2_AbortStopsAtFirstFailure ==
    (Looped /\ R.verification = "Abort") =>
        /\ R.pc = "loop" => Failed = {}
        /\ (R.pc = "done" /\ Failed # {}) =>
              /\ Failed = {NumCalls}
              /\ CallPriorities =
                    {p \in DOMAIN R.atBegin : p <= R.calls[NumCalls].priority}
              /\ ~R.retNil
              /\ R.ret = IF NumCalls = 1 THEN R.args ELSE R.calls[NumCalls - 1].output
              /\ hooks[R.hookName] = R.atBegin

\* C2's case: the second of three handlers failed, the third was not called, and
\* the first handler's output, which differs from args, was returned.
C2_Witness ==
    /\ Returned /\ R.verification = "Abort"
    /\ NumAtBegin = 3 /\ NumCalls = 2 /\ Failed = {2}
    /\ R.ret = R.calls[1].output /\ R.ret # R.args

\* What C3 says of the state in which a Run under Remove returned.
C3_AfterRun ==
    (Returned /\ R.verification = "Remove") =>
        /\ CallPriorities = DOMAIN R.atBegin
        /\ DOMAIN hooks[R.hookName] = {R.calls[i].priority : i \in Passed}
        /\ \A p \in DOMAIN hooks[R.hookName] : hooks[R.hookName][p] = R.atBegin[p]

\* The handlers a Run calls are those of the priorities it collected, in turn.
C3_CallsFollowPriorities ==
    R.pc \in {"loop", "done"} =>
        /\ NumCalls <= Len(R.priorities)
        /\ \A i \in 1..NumCalls : R.calls[i].priority = R.priorities[i]

\* A Run calls no handler that the Run before it deleted.
C3_SkipsEvicted ==
    R.pc \in {"loop", "done"} =>
        \A i \in 1..NumCalls : <<R.hookName, R.calls[i].priority>> \notin R.evictedBefore

\* C3: under Remove every handler of the hook name is called, the handlers that
\* failed verification are gone from the registry when the Run returns, those that
\* passed stay as they were, and the next Run calls none of the deleted ones.
C3_RemoveEvictsFailed ==
    C3_AfterRun /\ C3_CallsFollowPriorities /\ C3_SkipsEvicted

\* C3's case: a Run called the one handler left on a hook name of which the Run
\* before it, under Remove, had deleted another handler.
C3_Witness ==
    /\ Returned /\ NumCalls = 1 /\ NumAtBegin = 1
    /\ \E p \in Priorities : R.evictedBefore = {<<R.hookName, p>>}

\* C4: under Ignore a result that fails verification leaves the carried payload
\* alone: each handler receives the output of the last handler before it that
\* passed (params when none did), every handler is called, and the Run (of a hook
\* name that has a handler) returns the output of the last handler that passed,
\* or args when none did.
C4_IgnoreKeepsCarry ==
    (Looped /\ R.verification = "Ignore") =>
        /\ \A i \in 1..NumCalls : R.calls[i].input = LastValid(i - 1)
        /\ (R.pc = "done" /\ R.atBegin # << >>) =>
              /\ CallPriorities = DOMAIN R.atBegin
              /\ ~R.retNil
              /\ R.ret = LastValid(NumCalls)
              /\ (Passed = {} => R.ret = R.args)

\* C4's case: the first handler passed and changed the payload, the second
\* failed, and the third received the first one's output.
C4_Witness ==
    /\ Returned /\ R.verification = "Ignore" /\ NumCalls = 3
    /\ Failed = {2}
    /\ R.calls[1].output # R.params
    /\ R.calls[3].input = R.calls[1].output
    /\ R.calls[2].output # R.calls[1].output

\* C5: under PassDown every result is carried, verified or not: each handler
\* receives the result of the one before it, every handler is called, and the Run
\* returns the result of the handler with the largest priority number.
C5_PassDownCarriesAll ==
    (Looped /\ R.verification = "PassDown") =>
        /\ \A i \in 1..NumCalls :
              R.calls[i].input = IF i = 1 THEN R.params ELSE R.calls[i - 1].output
        /\ (R.pc = "done" /\ R.atBegin # << >>) =>
              /\ CallPriorities = DOMAIN R.atBegin
              /\ R.calls[NumCalls].priority = SetMax(DOMAIN R.atBegin)
              /\ ~R.retNil
              /\ R.ret = R.calls[NumCalls].output

\* C5's case: the second of three handlers dropped a key of args, the third
\* received that result and put a value under the key, and its result was returned.
C5_Witness ==
    /\ Returned /\ R.verification = "PassDown" /\ NumCalls = 3
    /\ Failed = {2}
    /\ R.calls[3].input = R.calls[2].output
    /\ R.calls[3].output # R.calls[3].input
    /\ R.ret = R.calls[3].output

\* C6: the handlers registered for the hook name are called in strictly ascending
\* priority: the i-th call is of the i-th smallest priority registered.
C6_AscendingPriority ==
    Looped =>
        /\ \A i, j \in 1..NumCalls : i < j => R.calls[i].priority < R.calls[j].priority
        /\ \A i \in 1..NumCalls :
              /\ R.calls[i].priority \in DOMAIN R.atBegin
              /\ Cardinality({p \in DOMAIN R.atBegin : p < R.calls[i].priority}) = i - 1

\* C6's case: three handlers were called, of priorities 1, 2 and 3.
C6_Witness ==
    /\ Returned /\ NumCalls = 3
    /\ R.calls[1].priority = 1 /\ R.calls[3].priority = 3

C8_CancelledCallsNoHandler ==
    R.ctx = "cancelled" => (R.pc # "loop" /\ R.calls = <<>>)

-----------------------------------------------------------------------------
(* Properties of the server, the proxy and the pool.                       *)

\* C9 (as claimed): while the server is Running, every inbound connection that
\* OnOpen kept open and that is not being closed has an upstream leased to it,
\* bound under its key in the pool.
C9_OpenInboundHoldsLease ==
    \A c \in Conns :
        (status = "Running" /\ conn[c] = "open") => InKey(c) \in DOMAIN pool

C13_PutFailsWhenFullOrPresent ==
    [][last'.ev = "put" =>
          LET key == last'.key
              refused == Cardinality(DOMAIN pool) >= cfg.size \/ key \in DOMAIN pool
          IN  /\ refused => (last'.err = "PoolExhausted" /\ pool' = pool)
              /\ ~refused =>
                    /\ last'.err = "none"
                    /\ DOMAIN pool' = DOMAIN pool \cup {key}
                    /\ pool'[key] \in Upstreams
                    /\ \A k \in DOMAIN pool : pool'[k] = pool[k]]_vars

\* C13's case: a put was refused for a key already present in a pool below capacity.
C13_Witness ==
    /\ last.ev = "put" /\ last.err = "PoolExhausted"
    /\ last.key \in DOMAIN pool
    /\ Cardinality(DOMAIN pool) < cfg.size

\* C14: no upstream is left that is neither in the pool nor closed, and none is
\* bound under the key of an inbound that has closed: the upstream leased to an
\* inbound is back in the pool or closed once the inbound has closed.
C14_UpstreamsReturnedOrClosed ==
    /\ \A u \in Upstreams : up[u] = "live" => u \in PoolRange(pool)
    /\ \A c \in Conns : conn[c] = "free" => InKey(c) \notin DOMAIN pool

\* C14's case: an inbound that held a lease has closed, its Disconnect succeeded.
C14_Witness ==
    /\ last.ev = "OnClose"
    /\ last.steps = <<"OnClosing", "Disconnect", "OnClosed", "Dec">>
    /\ conn[last.c] = "free"
    /\ status = "Running"

\* C15: after a shutdown request, the OnClose that brings the count of connections
\* to 0 tells the event loop to exit, and at that point the pool is empty and no
\* upstream is left open.
C15_LastCloseSignalsShutdown ==
    (last.ev = "OnClose" /\ status = "Stopped" /\ CountConnections(conn) = 0) =>
        /\ last.action = "Shutdown"
        /\ pool = EmptyPool
        /\ \A u \in Upstreams : up[u] # "live"

\* C15's case: the server was shut down with connections open, the event loop
\* closed them, and the OnClose of the last one signalled the exit, the upstreams
\* having been closed.
C15_Witness ==
    /\ last.ev = "OnClose" /\ last.action = "Shutdown"
    /\ engine = "draining"
    /\ CountConnections(conn) = 0
    /\ \E u \in Upstreams : up[u] = "closed"

\* C16 (as claimed): every OnClose runs the OnClosing hook, calls Proxy.Disconnect,
\* runs the OnClosed hook, and only then decides whether to signal shutdown.
C16_CloseRunsDisconnectAndOnClosed ==
    last.ev = "OnClose" =>
        /\ Len(last.steps) >= 3
        /\ last.steps[1] = "OnClosing"
        /\ last.steps[2] \in {"Disconnect", "Disconnect:ClientNotFound"}
        /\ last.steps[3] = "OnClosed"

\* C17: when a handler of the OnTraffic hook sets terminate, the bytes are not
\* sent to the upstream, PassthroughTerminations is incremented exactly once,
\* PassThrough returns HookTerminatedConnection and the server closes the inbound.
C17_TerminateClosesWithoutForwarding ==
    (last.ev = "OnTraffic" /\ "terminate" \in SeqToSet(last.steps)) =>
        /\ \A i \in 1..Len(last.steps) : last.steps[i] \notin {"send", "send:failed"}
        /\ Cardinality({i \in 1..Len(last.steps) :
                            last.steps[i] = "Inc:PassthroughTerminations"}) = 1
        /\ last.steps[Len(last.steps)] = "PassThrough:HookTerminatedConnection"
        /\ last.action = "Close"
        /\ conn[last.c] = "closing"

\* C17's case: a handler terminated the traffic of an inbound that holds a lease.
C17_Witness ==
    /\ last.ev = "OnTraffic" /\ "terminate" \in SeqToSet(last.steps)
    /\ InKey(last.c) \in DOMAIN pool
    /\ conn[last.c] = "closing"

\* The kinds C18 enumerates as fatal.
C18_Enumerated ==
    {"PoolExhausted", "ClientNotFound", "ClientNotConnected", "ClientSendFailed",
     "ClientReceiveFailed", "HookTerminatedConnection", "EOF"}

\* C18 (as claimed): OnTraffic closes the inbound exactly when PassThrough fails
\* with PoolExhausted, ClientNotFound, ClientNotConnected, ClientSendFailed,
\* ClientReceiveFailed, HookTerminatedConnection or an upstream EOF.
C18_ClosesOnEnumeratedOnly ==
    last.ev = "OnTraffic" =>
        (last.action = "Close" <=>
            \E e \in C18_Enumerated : last.steps[Len(last.steps)] = "PassThrough:" \o e)

\* C18 (amended): OnTraffic closes the inbound exactly when PassThrough fails with
\* one of those kinds or with CastFailed; otherwise the inbound is kept open.
C18_ClosesOnEnumeratedOrCastFailed ==
    last.ev = "OnTraffic" =>
        /\ last.action = "Close" <=>
              \E e \in C18_Enumerated \cup {"CastFailed"} :
                  last.steps[Len(last.steps)] = "PassThrough:" \o e
        /\ last.action \in {"Close", "None"}
        /\ last.action = "Close" => conn[last.c] = "closing"

\* C18's case: PassThrough failed with CastFailed and the inbound was closed.
C18_Witness ==
    /\ last.ev = "OnTraffic" /\ last.action = "Close"
    /\ last.steps[Len(last.steps)] = "PassThrough:CastFailed"
    /\ conn[last.c] = "closing"

\* C19: an OnOpen that finds the hard limit reached writes the notice and closes
\* the inbound without a Connect, an OnOpened hook or an increment of the gauge;
\* no OnOpen writes the notice when the limit is not reached or is 0.
C19_HardLimitClosesBeforeConnect ==
    [][\A c \in Conns :
          (conn[c] = "free" /\ conn'[c] # "free") =>
              IF cfg.hardLimit > 0 /\ CountConnections(conn') >= cfg.hardLimit
              THEN /\ last'.steps[Len(last'.steps)] = "write:Hard limit reached"
                   /\ last'.action = "Close"
                   /\ conn'[c] = "closing"
                   /\ \A i \in 1..Len(last'.steps) :
                         last'.steps[i] \notin {"Connect", "Connect:PoolExhausted",
                                                "Connect:ClientConnectionFailed",
                                                "OnOpened", "Inc"}
                   /\ pool' = pool /\ up' = up
                   /\ clientConnections' = clientConnections
              ELSE "write:Hard limit reached" \notin SeqToSet(last'.steps)]_vars

\* C19's case: an inbound was closed for the hard limit while upstreams were
\* available in the pool.
C19_Witness ==
    /\ last.ev = "OnOpen"
    /\ "write:Hard limit reached" \in SeqToSet(last.steps)
    /\ conn[last.c] = "closing"
    /\ \E u \in Upstreams : UpKey(u) \in DOMAIN pool

\* C20 (as claimed): an OnOpen warns of the soft limit only when the count of
\* connections was below the limit before this connection came.
C20_SoftWarningOncePerTransition ==
    [][\A c \in Conns :
          (/\ conn[c] = "free" /\ conn'[c] # "free"
           /\ "warn:Soft limit reached" \in SeqToSet(last'.steps))
          => CountConnections(conn) < cfg.softLimit]_vars

\* C21: when Proxy.Connect returns PoolExhausted, OnOpen closes the inbound and
\* writes nothing to it, runs no OnOpened hook and leaves the gauge of client
\* connections as it was.
C21_PoolExhaustedClosesSilently ==
    [][\A c \in Conns :
          (/\ conn[c] = "free" /\ conn'[c] # "free"
           /\ last'.steps[Len(last'.steps)] = "Connect:PoolExhausted")
          => (/\ conn'[c] = "closing"
              /\ last'.action = "Close"
              /\ \A i \in 1..Len(last'.steps) :
                    last'.steps[i] \notin {"write:Hard limit reached", "OnOpened", "Inc"}
              /\ clientConnections' = clientConnections)]_vars

\* C21's case: a non-elastic proxy whose pool is empty refused an inbound.
C21_Witness ==
    /\ last.ev = "OnOpen"
    /\ last.steps[Len(last.steps)] = "Connect:PoolExhausted"
    /\ conn[last.c] = "closing"
    /\ ~cfg.elastic /\ pool = EmptyPool

\* The order of the states of the server that C22 states.
C22_Rank(st) ==
    CASE st = "Booting" -> 1 [] st = "Running" -> 2 [] st = "Stopping" -> 3 [] OTHER -> 4

\* C22 (as claimed): the status only moves forward through Booting, Running,
\* Stopping and Stopped, and IsRunning is true exactly in Running.
C22_StatusOnlyMovesForward ==
    [][/\ C22_Rank(status') >= C22_Rank(status)
       /\ IsRunning(status') <=> C22_Rank(status') = 2]_vars

\* C23: OnBoot runs the OnBooting hooks while the status is not yet Running, sets
\* it to Running and then runs the OnBooted hooks, which see Running; the status
\* is Running after OnBoot whatever the two Runs of the hooks returned.
C23_BootSetsRunningBetweenHooks ==
    last.ev = "OnBoot" =>
        /\ status = "Running"
        /\ last.steps[1] = "OnBooting" /\ last.steps[2] # "status:Running"
        /\ last.steps[4] = "set:Running"
        /\ last.steps[5] = "OnBooted" /\ last.steps[6] = "status:Running"
        /\ last.action = "None"

\* C23's case: both Runs of the hooks returned an error and the server is Running.
C23_Witness ==
    /\ last.ev = "OnBoot"
    /\ last.steps[3] = "err:CastFailed" /\ last.steps[7] = "err:CastFailed"
    /\ status = "Running" /\ engine = "serving"

\* C24: a Run with a nil context returns the NilContext error and a nil result,
\* calls no handler and leaves the registry as it was.
C24_NilContextReturnsError ==
    (R.pc # "idle" /\ R.ctx = "nil") =>
        /\ R.pc = "done"
        /\ R.err = "NilContext"
        /\ R.retNil
        /\ R.calls = <<>>
        /\ hooks[R.hookName] = R.atBegin

\* C24's case: a Run with a nil context on a hook name that has handlers.
C24_Witness ==
    /\ R.pc = "done" /\ R.ctx = "nil" /\ R.err = "NilContext"
    /\ R.atBegin # << >>
    /\ R.args # EmptyStruct

\* The calls of a Run whose handler returned a nil result with an error.
C25_Errored == {i \in 1..NumCalls : R.calls[i].kind = "fail"}

\* C25 (as claimed): a handler that returns an error is treated as one whose
\* result fails verification: the Run returns no error, under Abort the call is
\* the last one, under Remove the handler is gone once the Run returned, and under
\* Ignore and Remove the next handler receives what the erring one received.
C25_ErrorTreatedAsVerificationFailure ==
    (Looped /\ R.pc = "done") =>
        \A i \in C25_Errored :
            /\ R.err = "none"
            /\ R.verification = "Abort" => i = NumCalls
            /\ R.verification = "Remove" =>
                  R.calls[i].priority \notin DOMAIN hooks[R.hookName]
            /\ (R.verification \in {"Ignore", "Remove"} /\ i < NumCalls) =>
                  R.calls[i + 1].input = R.calls[i].input

\* C26: an Add puts its handler at its priority of its hook name, keeps the
\* handlers of that name at every other priority and leaves the other hook names
\* as they were; a hook name holds one handler per priority.
C26_AddReplacesOrKeeps ==
    [][\E n \in DOMAIN hooks, p \in Priorities, k \in Kinds :
          /\ DOMAIN hooks'[n] = DOMAIN hooks[n] \cup {p}
          /\ hooks'[n][p] = k
          /\ \A q \in DOMAIN hooks[n] \ {p} : hooks'[n][q] = hooks[n][q]
          /\ \A m \in DOMAIN hooks \ {n} : hooks'[m] = hooks[m]]_vars

\* C26's case: an Add has replaced a handler of a hook name that holds another
\* handler, while the other hook name holds a handler too.
C26_Witness ==
    /\ last.ev = "Add" /\ Len(last.steps) = 2 /\ last.steps[2] = "warn:Hook is replaced"
    /\ Cardinality(DOMAIN hooks[last.steps[1]]) = 2
    /\ \E m \in DOMAIN hooks \ {last.steps[1]} : hooks[m] # << >>

\* C27 (as claimed): the handlers a Run calls are the ones that were registered
\* when it started, whatever Add did since.
C27_RunCallsHandlersOfItsStart ==
    Looped =>
        \A i \in 1..NumCalls :
            /\ R.calls[i].priority \in DOMAIN R.atBegin
            /\ R.calls[i].kind = R.atBegin[R.calls[i].priority]

\* C29 (as claimed): the process exits with code 0 only after a clean shutdown,
\* and with another code when the server failed to bind.
C29_ExitCodeTellsOutcome ==
    last.ev = "Exit" =>
        /\ last.c = 0 => last.steps[2] = "Shutdown"
        /\ last.steps[1] = "gnet.Run:bind" => last.c # 0

\* C30 (as claimed): the gauge of client connections is never negative, it is 0
\* when no connection is open or closing, and while none is closing it is the
\* number of open connections.
C30_GaugeCountsOpenConnections ==
    /\ clientConnections >= 0
    /\ (\A c \in Conns : conn[c] # "closing") =>
          clientConnections = Cardinality({c \in Conns : conn[c] = "open"})

\* Every handler that was registered when the Run x started returns its input,
\* and did so in each call of x.
C28_NoHandlerMutates(x) ==
    /\ \A p \in DOMAIN x.atBegin : x.atBegin[p] = "echo"
    /\ \A i \in 1..Len(x.calls) : x.calls[i].output = x.calls[i].input

\* The second Run has returned, and it was a Run of the first one's result under
\* Ignore or PassDown over handlers that do not mutate.
C28_RanTwice ==
    /\ run[First].pc = "done" /\ run[First].err = "none"
    /\ run[1].pc = "done"
    /\ run[1].args = CastToPrimitiveTypes(run[First].ret)
    /\ run[1].hookName = run[First].hookName
    /\ run[1].verification = run[First].verification
    /\ run[1].verification \in {"Ignore", "PassDown"}
    /\ C28_NoHandlerMutates(run[First]) /\ C28_NoHandlerMutates(run[1])

C31_CancelStopsTheChain ==
    (Looped /\ NumCalls >= 1 /\ R.calls[1].ctx = "live") =>
        \A i \in 1..NumCalls : R.calls[i].ctx = "live"

C33_ReturnedMapVerifies ==
    (Returned /\ R.verification \in {"Ignore", "Abort", "Remove"} /\ R.atBegin # << >>) =>
        /\ ~R.retNil
        /\ Verify(R.args, R.ret)
        /\ DOMAIN R.args \subseteq DOMAIN R.ret

\* C33's case: args with a key, a handler whose result lacks it, and a returned
\* map that a handler changed.
C33_Witness ==
    /\ Returned /\ R.verification \in {"Ignore", "Remove"} /\ R.atBegin # << >>
    /\ R.args # EmptyStruct
    /\ \E i \in Failed : DOMAIN R.calls[i].output = {}
    /\ R.ret # R.args

\* C34: a Run that nothing interleaves with calls each handler of the hook name
\* at most once, and the handler it calls is the registered one; under Ignore,
\* Remove and PassDown it has called every handler exactly once when it returns,
\* those that come after a handler that failed verification included.
C34_EachHandlerOnce ==
    Looped =>
        /\ \A i, j \in 1..NumCalls : i # j => R.calls[i].priority # R.calls[j].priority
        /\ \A i \in 1..NumCalls :
              /\ R.calls[i].priority \in DOMAIN R.atBegin
              /\ R.calls[i].kind = R.atBegin[R.calls[i].priority]
        /\ (R.pc = "done" /\ R.verification \in {"Ignore", "Remove", "PassDown"}) =>
              /\ NumCalls = NumAtBegin
              /\ CallPriorities = DOMAIN R.atBegin

\* C34's case: the first of three handlers failed verification under Remove and
\* the two after it were called.
C34_Witness ==
    /\ Returned /\ R.verification = "Remove"
    /\ NumAtBegin = 3 /\ NumCalls = 3
    /\ 1 \in Failed
    /\ R.calls[1].priority < R.calls[2].priority
    /\ R.calls[2].priority < R.calls[3].priority

\* The priorities of the calls of Run x whose result failed verification.
C35_FailedPriorities(x) ==
    {x.calls[i].priority : i \in {j \in 1..Len(x.calls) : ~x.calls[j].verified}}

\* C35: a step of Run changes the registry only when it returns with no error
\* under Remove, and then only by deleting, from the hook name it ran, handlers
\* that failed verification in this Run; the other handlers of that name and all
\* handlers of the other hook names stay as they were.
C35_RunFrame ==
    [][run' # run =>
          \A n \in DOMAIN hooks :
              hooks'[n] # hooks[n] =>
                  /\ n = R'.hookName
                  /\ R'.pc = "done" /\ R'.err = "none" /\ R'.verification = "Remove"
                  /\ DOMAIN hooks'[n] \subseteq DOMAIN hooks[n]
                  /\ DOMAIN hooks[n] \ DOMAIN hooks'[n] \subseteq C35_FailedPriorities(R')
                  /\ \A p \in DOMAIN hooks'[n] : hooks'[n][p] = hooks[n][p]]_vars

\* C35's case: a Run under Remove deleted a handler that failed and kept one
\* that passed, while the other hook name holds a handler.
C35_Witness ==
    /\ Returned /\ R.verification = "Remove"
    /\ NumCalls = 2 /\ Failed # {} /\ Passed # {}
    /\ DOMAIN hooks[R.hookName] = {R.calls[i].priority : i \in Passed}
    /\ \E n \in DOMAIN hooks \ {R.hookName} : hooks[n] # << >>

\* C36 (as claimed): when two Runs of a hook name interleave, each calls only
\* handlers that are in the registry at the moment of the call: no Run reaches a
\* priority whose handler the other Run has deleted.
C36_RunsCallOnlyPresentHandlers ==
    \A c \in Callers :
        /\ run[c].pc # "panic"
        /\ run[c].pc = "loop" =>
              run[c].priorities[run[c].idx] \in DOMAIN hooks[run[c].hookName]

\* C37: the signal goroutine ignores no signal it takes from the channel: on each
\* it runs the OnSignal hooks once, then server.Shutdown() once, then exits the
\* process with code 0, after which nothing runs again.
C37_SignalShutsDownOnce ==
    /\ last.ev # "Signal"
    /\ (last.ev = "Exit" /\ last.steps[1] # "gnet.Run:bind") =>
          /\ Len(last.steps) = 4
          /\ SubSeq(last.steps, 1, 3) = <<"OnSignal", "Shutdown", "os.Exit">>
          /\ last.steps[4] \in SeqToSet(Signals)
          /\ last.c = 0
          /\ engine = "exited" /\ status = "Stopped" /\ pool = EmptyPool

\* C37's case: the signal is the first element of the slice, so the first
\* comparison of the loop finds it equal, and a connection was open.
C37_Witness ==
    /\ last.ev = "Exit" /\ last.steps[1] = "OnSignal"
    /\ last.steps[4] = Signals[1]
    /\ engine = "exited"
    /\ \E c \in Conns : conn[c] = "open"

=============================================================================
